---- MODULE Spec2Model ----
(***************************************************************************)
(* Model of aws/iam_policy_model.go: the IAM policy document model, the    *)
(* custom JSON codecs of principal sets and condition sets, the config     *)
(* string-list helper and the Sid de-duplication pass.                     *)
(***************************************************************************)
EXTENDS Integers, Sequences, FiniteSets, TLC

\* ---------------------------------------------------------------- bounds
MaxStatements == 5
MaxEntries == 2
\* the most strings the identifier / value lists of one set hold in all
MaxStrings == 2

\* Sid values of the statements; "" is the empty Sid
Sids == {"", "A", "B", "C"}

VARIABLES mode, Statements, orig, sidsSeen, l, i, n, pc,
          ps, cs, lI, ret, b, status, phase, src, in0, prev

dedupVars == <<Statements, orig, sidsSeen, l, i, n, pc>>
codecVars == <<ps, cs, lI, ret, b, status, phase, src, in0, prev>>
vars == <<mode, Statements, orig, sidsSeen, l, i, n, pc,
          ps, cs, lI, ret, b, status, phase, src, in0, prev>>

\* ------------------------------------------------------- strings, values
\* identifier strings and their bytes; Go compares strings bytewise
Idents == {"*", "arn:a", "arn:b"}
CondIdents == {"arn:a", "arn:b"}
Types == {"AWS", "*", "Service"}
Tests == {"StringEquals", "StringLike"}
Variables == {"aws:a", "aws:b"}

StrBytes(s) ==
  CASE s = "*" -> <<42>>
    [] s = "arn:a" -> <<97, 114, 110, 58, 97>>
    [] s = "arn:b" -> <<97, 114, 110, 58, 98>>

\* x < y on Go strings
StrLess(x, y) ==
  LET bx == StrBytes(x)
      by == StrBytes(y)
  IN \E k \in 1..(Len(by)) :
       /\ k <= Len(bx) + 1
       /\ \A j \in 1..(k - 1) : bx[j] = by[j]
       /\ (k = Len(bx) + 1 \/ bx[k] < by[k])

\* values held in an interface{}: the dynamic type and the value
Kind(x) == x[1]
Val(x) == x[2]
GoString(s) == <<"string", s>>
GoStrings(q) == <<"[]string", q>>
GoIfaces(q) == <<"[]interface{}", q>>
GoFloat == <<"float64", 1>>

\* JSON texts, up to the key order json.Marshal fixes by sorting map keys
JStr(s) == <<"jstr", s>>
JNum == <<"jnum", 1>>
JArr(q) == <<"jarr", q>>
JObj(f) == <<"jobj", f>>
NoBytes == <<"none", "">>
Nil == <<"nil", "">>

SeqsUpTo(S, len) == UNION {[1..k -> S] : k \in 0..len}

\* the list left as it is
SortNone(q) == q

RECURSIVE SortInsert(_, _)
SortInsert(x, q) ==
  IF q = <<>> THEN <<x>>
  ELSE IF StrLess(Head(q), x) THEN <<x>> \o q
       ELSE <<Head(q)>> \o SortInsert(x, Tail(q))

RECURSIVE SortDescRec(_)
SortDescRec(q) == IF q = <<>> THEN <<>> ELSE SortInsert(Head(q), SortDescRec(Tail(q)))

\* sort.Sort(sort.Reverse(sort.StringSlice(q)))
SortDesc(q) == SortDescRec(q)

\* json.Marshal of a string or float64 held in an interface{}
ToJSONScalar(x) == IF Kind(x) = "string" THEN JStr(Val(x)) ELSE JNum

\* json.Marshal of a string, []string or []interface{} held in an interface{}
ToJSON(x) ==
  CASE Kind(x) = "[]string" -> JArr([k \in 1..Len(Val(x)) |-> JStr(Val(x)[k])])
    [] Kind(x) = "[]interface{}" -> JArr([k \in 1..Len(Val(x)) |-> ToJSONScalar(Val(x)[k])])
    [] OTHER -> ToJSONScalar(x)

\* json.Unmarshal into an interface{} of a string, a number or an array of them
FromJSONScalar(j) == IF Kind(j) = "jstr" THEN GoString(Val(j)) ELSE GoFloat

FromJSON(j) ==
  IF Kind(j) = "jarr"
  THEN GoIfaces([k \in 1..Len(Val(j)) |-> FromJSONScalar(Val(j)[k])])
  ELSE FromJSONScalar(j)

\* the orders in which a range over a map can visit the keys S
KeyOrders(S) ==
  {q \in [1..Cardinality(S) -> S] : \A j, k \in 1..Cardinality(S) : j # k => q[j] # q[k]}

\* identifier / value shapes a caller constructs: a string or a []string,
\* of at most budget strings
StringOrList(S, budget) ==
  {GoString(s) : s \in IF budget > 0 THEN S ELSE {}} \cup
  {GoStrings(q) : q \in SeqsUpTo(S, budget)}

\* the number of strings a value or a JSON leaf holds
Weight(x) == IF Kind(x) \in {"string", "float64", "jstr", "jnum"} THEN 1 ELSE Len(Val(x))

\* JSON leaves over the scalars A: a scalar or an array of scalars
LeafTexts(A, budget) ==
  (IF budget > 0 THEN A ELSE {}) \cup {JArr(q) : q \in SeqsUpTo(A, budget)}

\* the JSON objects giving at most k of the keys K a leaf, the leaves holding
\* at most budget scalars in all
RECURSIVE ObjectsWithin(_, _, _, _)
ObjectsWithin(K, k, budget, A) ==
  IF K = {} \/ k = 0 THEN {<<>>}
  ELSE LET key == CHOOSE x \in K : TRUE
           rest == K \ {key}
           objs == [w \in 0..budget |-> ObjectsWithin(rest, k - 1, budget - w, A)]
       IN ObjectsWithin(rest, k, budget, A) \cup
          UNION {{(key :> leaf) @@ g : g \in objs[Weight(leaf)]}
                  : leaf \in LeafTexts(A, budget)}

\* -------------------------------------------------------- principal sets
\* the principal sets of at most k entries and budget strings
RECURSIVE PrincipalSetsWithin(_, _)
PrincipalSetsWithin(k, budget) ==
  IF k = 0 THEN {<<>>}
  ELSE LET rests == [w \in 0..budget |-> PrincipalSetsWithin(k - 1, budget - w)]
       IN {<<>>} \cup
          UNION {{<<[Type |-> t, Identifiers |-> x]>> \o rest :
                    t \in Types, rest \in rests[Weight(x)]}
                  : x \in StringOrList(Idents, budget)}

PrincipalSets == PrincipalSetsWithin(MaxEntries, MaxStrings)

\* the shorthand taken for type "AWS" only
IsWildcardAWSOnly(set) ==
  /\ Len(set) = 1
  /\ set[1].Type = "AWS"
  /\ \/ set[1].Identifiers = GoString("*")
     \/ set[1].Identifiers = GoStrings(<<"*">>)

\* the special case of MarshalJSON
IsWildcard(set) ==
  /\ Len(set) = 1
  /\ set[1].Type = "AWS" \/ set[1].Type = "*"
  /\ \/ set[1].Identifiers = GoString("*")
     \/ set[1].Identifiers = GoStrings(<<"*">>)

\* the grouping loop from entry k on; raw maps a type to its value so far.
\* The result carries the set as the loop left it (sorted in place).
RECURSIVE PrincipalLoop(_, _, _)
PrincipalLoop(set, k, raw) ==
  IF k > Len(set) THEN [ps |-> set, raw |-> raw, panicked |-> FALSE]
  ELSE
    LET p == set[k]
        ids == p.Identifiers
    IN CASE Kind(ids) = "[]string" ->
              LET raw1 == IF p.Type \in DOMAIN raw THEN raw
                          ELSE (p.Type :> GoStrings(<<>>)) @@ raw
                  sorted == SortDesc(Val(ids))
                  set1 == [set EXCEPT ![k].Identifiers = GoStrings(sorted)]
              IN IF Kind(raw1[p.Type]) # "[]string"
                 THEN [ps |-> set1, raw |-> raw1, panicked |-> TRUE]
                 ELSE PrincipalLoop(set1, k + 1,
                        (p.Type :> GoStrings(Val(raw1[p.Type]) \o sorted)) @@ raw1)
         [] Kind(ids) = "string" ->
              PrincipalLoop(set, k + 1, (p.Type :> ids) @@ raw)
         [] OTHER -> [ps |-> set, raw |-> raw, panicked |-> TRUE]

\* json.Marshal(&raw) for a map of strings and []strings
MarshalRaw(raw) == JObj([t \in DOMAIN raw |-> ToJSON(raw[t])])

\* IAMPolicyStatementPrincipalSet.MarshalJSON: the bytes, whether it
\* panicked, and the receiver's entries after the call
PrincipalMarshal(set) ==
  IF IsWildcard(set)
  THEN [out |-> JStr("*"), panicked |-> FALSE, ps |-> set]
  ELSE LET r == PrincipalLoop(set, 1, <<>>)
       IN [out |-> IF r.panicked THEN NoBytes ELSE MarshalRaw(r.raw),
           panicked |-> r.panicked, ps |-> r.ps]

\* IAMPolicyStatementPrincipalSet.UnmarshalJSON, the map ranged in order ord
PrincipalUnmarshal(bytes, ord) ==
  CASE Kind(bytes) = "jstr" ->
         [err |-> FALSE,
          out |-> <<[Type |-> "*", Identifiers |-> GoStrings(<<"*">>)]>>]
    [] Kind(bytes) = "jobj" ->
         [err |-> FALSE,
          out |-> [k \in 1..Len(ord) |->
                     [Type |-> ord[k], Identifiers |-> FromJSON(Val(bytes)[ord[k]])]]]
    [] OTHER -> [err |-> TRUE, out |-> <<>>]

PrincipalOrders(bytes) ==
  IF Kind(bytes) = "jobj" THEN KeyOrders(DOMAIN Val(bytes)) ELSE {<<>>}

\* JSON texts handed to UnmarshalJSON: a string, a number, or an object
\* whose values are strings or arrays of strings
PrincipalTexts ==
  {JStr(s) : s \in Idents} \cup {JNum} \cup
  {JObj(f) : f \in ObjectsWithin(Types, MaxEntries, MaxStrings, {JStr(s) : s \in Idents})}

CodecIdle ==
  /\ ps = <<>>
  /\ cs = <<>>
  /\ lI = <<>>
  /\ ret = Nil
  /\ b = NoBytes
  /\ status = "ok"
  /\ phase = "idle"
  /\ src = "none"
  /\ in0 = Nil
  /\ prev = NoBytes

DeDupIdle ==
  /\ Statements = <<>>
  /\ orig = <<>>
  /\ sidsSeen = {}
  /\ l = 0
  /\ i = 0
  /\ n = 0
  /\ pc = "idle"

\* a principal set built by the caller, or a JSON text about to be decoded
InitPrincipal ==
  /\ mode = "principal"
  /\ DeDupIdle
  /\ cs = <<>> /\ lI = <<>> /\ ret = Nil
  /\ status = "ok" /\ in0 = Nil /\ prev = NoBytes
  /\ \/ /\ ps \in PrincipalSets
        /\ b = NoBytes
        /\ phase = "built"
        /\ src = "constructed"
     \/ /\ ps = <<>>
        /\ b \in PrincipalTexts
        /\ phase = "bytes"
        /\ src = "none"

\* json.Marshal calls ps.MarshalJSON()
PMarshal ==
  /\ mode = "principal" /\ status = "ok" /\ phase \in {"built", "decoded"}
  /\ LET r == PrincipalMarshal(ps) IN
       /\ in0' = ps
       /\ ps' = r.ps
       /\ status' = IF r.panicked THEN "panic" ELSE "ok"
       /\ b' = r.out
  /\ phase' = "encoded"
  /\ UNCHANGED <<mode, dedupVars, cs, lI, ret, src, prev>>

\* json.Unmarshal calls ps.UnmarshalJSON(b)
PUnmarshal ==
  /\ mode = "principal" /\ status = "ok" /\ phase \in {"bytes", "encoded"}
  /\ \E ord \in PrincipalOrders(b) :
       LET r == PrincipalUnmarshal(b, ord) IN
         /\ ps' = IF r.err THEN ps ELSE r.out
         /\ status' = IF r.err THEN "error" ELSE "ok"
  /\ phase' = "decoded"
  /\ src' = "decoded"
  /\ prev' = IF phase = "encoded" THEN b ELSE NoBytes
  /\ UNCHANGED <<mode, dedupVars, cs, lI, ret, b, in0>>

\* -------------------------------------------------------- condition sets
\* the condition sets of at most k entries and budget strings
RECURSIVE ConditionSetsWithin(_, _)
ConditionSetsWithin(k, budget) ==
  IF k = 0 THEN {<<>>}
  ELSE LET rests == [w \in 0..budget |-> ConditionSetsWithin(k - 1, budget - w)]
       IN {<<>>} \cup
          UNION {{<<[Test |-> t, Variable |-> v, Values |-> x]>> \o rest :
                    t \in Tests, v \in Variables, rest \in rests[Weight(x)]}
                  : x \in StringOrList(CondIdents, budget)}

ConditionSets == ConditionSetsWithin(MaxEntries, MaxStrings)

\* the grouping loop from entry k on; raw maps test -> variable -> value
RECURSIVE ConditionLoop(_, _, _)
ConditionLoop(set, k, raw) ==
  IF k > Len(set) THEN [cs |-> set, raw |-> raw, panicked |-> FALSE]
  ELSE
    LET c == set[k]
        vals == c.Values
        raw0 == IF c.Test \in DOMAIN raw THEN raw ELSE (c.Test :> <<>>) @@ raw
    IN CASE Kind(vals) = "[]string" ->
              LET inner == IF c.Variable \in DOMAIN raw0[c.Test] THEN raw0[c.Test]
                           ELSE (c.Variable :> GoStrings(<<>>)) @@ raw0[c.Test]
                  sorted == SortDesc(Val(vals))
                  set1 == [set EXCEPT ![k].Values = GoStrings(sorted)]
              IN IF Kind(inner[c.Variable]) # "[]string"
                 THEN [cs |-> set1, raw |-> raw0, panicked |-> TRUE]
                 ELSE ConditionLoop(set1, k + 1,
                        (c.Test :> ((c.Variable :>
                            GoStrings(Val(inner[c.Variable]) \o sorted)) @@ inner)) @@ raw0)
         [] Kind(vals) = "string" ->
              ConditionLoop(set, k + 1,
                (c.Test :> ((c.Variable :> vals) @@ raw0[c.Test])) @@ raw0)
         [] OTHER -> [cs |-> set, raw |-> raw0, panicked |-> TRUE]

\* IAMPolicyStatementConditionSet.MarshalJSON
ConditionMarshal(set) ==
  LET r == ConditionLoop(set, 1, <<>>)
  IN [out |-> IF r.panicked THEN NoBytes
              ELSE JObj([t \in DOMAIN r.raw |-> MarshalRaw(r.raw[t])]),
      panicked |-> r.panicked, cs |-> r.cs]

\* json.Unmarshal into map[string]map[string]interface{} accepts the text
TwoLevelObject(bytes) ==
  /\ Kind(bytes) = "jobj"
  /\ \A t \in DOMAIN Val(bytes) : Kind(Val(bytes)[t]) = "jobj"

\* the conversion of the leaves visited in order ord (<<test, variable>>
\* pairs) from position k on, appended to out
RECURSIVE ConditionLeaves(_, _, _, _)
ConditionLeaves(bytes, ord, k, out) ==
  IF k > Len(ord) THEN [panicked |-> FALSE, out |-> out]
  ELSE
    LET test_key == ord[k][1]
        var_key == ord[k][2]
        leaf == FromJSON(Val(Val(bytes)[test_key])[var_key])
    IN CASE Kind(leaf) = "string" ->
              ConditionLeaves(bytes, ord, k + 1,
                Append(out, [Test |-> test_key, Variable |-> var_key,
                             Values |-> GoStrings(<<Val(leaf)>>)]))
         [] Kind(leaf) = "[]interface{}" ->
              IF \E j \in 1..Len(Val(leaf)) : Kind(Val(leaf)[j]) # "string"
              THEN [panicked |-> TRUE, out |-> out]
              ELSE ConditionLeaves(bytes, ord, k + 1,
                     Append(out, [Test |-> test_key, Variable |-> var_key,
                                  Values |-> GoStrings([j \in 1..Len(Val(leaf)) |->
                                                          Val(Val(leaf)[j])])]))
         [] OTHER -> ConditionLeaves(bytes, ord, k + 1, out)

\* IAMPolicyStatementConditionSet.UnmarshalJSON, the maps ranged in order ord
ConditionUnmarshal(bytes, ord) ==
  IF ~TwoLevelObject(bytes) THEN [err |-> TRUE, panicked |-> FALSE, out |-> <<>>]
  ELSE LET r == ConditionLeaves(bytes, ord, 1, <<>>)
       IN [err |-> FALSE, panicked |-> r.panicked, out |-> r.out]

RECURSIVE Flatten(_)
Flatten(qs) == IF qs = <<>> THEN <<>> ELSE Head(qs) \o Flatten(Tail(qs))

\* the visiting orders of the nested range loops: an order of the tests and,
\* for each test, an order of its variables
ConditionOrders(bytes) ==
  IF ~TwoLevelObject(bytes) THEN {<<>>}
  ELSE LET f == Val(bytes)
           inner(t) == {[k \in 1..Len(q) |-> <<t, q[k]>>] : q \in KeyOrders(DOMAIN Val(f[t]))}
           choices == {g \in [DOMAIN f -> UNION {inner(t) : t \in DOMAIN f}] :
                         \A t \in DOMAIN f : g[t] \in inner(t)}
       IN {Flatten([k \in 1..Len(to) |-> g[to[k]]]) : to \in KeyOrders(DOMAIN f), g \in choices}

\* JSON texts handed to UnmarshalJSON: two-level objects whose leaves are
\* strings, numbers or arrays of strings and numbers; texts of another shape
\* the two-level object of the leaves g, a function of <<test, variable>>
ConditionObject(g) ==
  JObj([t \in {p[1] : p \in DOMAIN g} |->
         JObj([v \in {p[2] : p \in {p \in DOMAIN g : p[1] = t}} |-> g[<<t, v>>]])])

ConditionTexts ==
  {JStr("arn:a"), JObj([t \in {"StringEquals"} |-> JStr("arn:a")])} \cup
  {ConditionObject(g) :
     g \in ObjectsWithin(Tests \X Variables, MaxEntries, MaxStrings,
                         {JStr(s) : s \in CondIdents} \cup {JNum})}

InitCondition ==
  /\ mode = "condition"
  /\ DeDupIdle
  /\ ps = <<>> /\ lI = <<>> /\ ret = Nil
  /\ status = "ok" /\ in0 = Nil /\ prev = NoBytes
  /\ \/ /\ cs \in ConditionSets
        /\ b = NoBytes
        /\ phase = "built"
        /\ src = "constructed"
     \/ /\ cs = <<>>
        /\ b \in ConditionTexts
        /\ phase = "bytes"
        /\ src = "none"

\* json.Marshal calls cs.MarshalJSON()
CMarshal ==
  /\ mode = "condition" /\ status = "ok" /\ phase \in {"built", "decoded"}
  /\ LET r == ConditionMarshal(cs) IN
       /\ in0' = cs
       /\ cs' = r.cs
       /\ status' = IF r.panicked THEN "panic" ELSE "ok"
       /\ b' = r.out
  /\ phase' = "encoded"
  /\ UNCHANGED <<mode, dedupVars, ps, lI, ret, src, prev>>

\* json.Unmarshal calls cs.UnmarshalJSON(b)
CUnmarshal ==
  /\ mode = "condition" /\ status = "ok" /\ phase \in {"bytes", "encoded"}
  /\ \E ord \in ConditionOrders(b) :
       LET r == ConditionUnmarshal(b, ord) IN
         /\ cs' = IF r.err \/ r.panicked THEN cs ELSE r.out
         /\ status' = IF r.err THEN "error" ELSE IF r.panicked THEN "panic" ELSE "ok"
  /\ phase' = "decoded"
  /\ src' = "decoded"
  /\ prev' = IF phase = "encoded" THEN b ELSE NoBytes
  /\ UNCHANGED <<mode, dedupVars, ps, lI, ret, b, in0>>

\* ------------------------------------------- iamPolicyDecodeConfigStringList
\* the value stored in Actions / Resources for the config list q
iamPolicyDecodeConfigStringList(q) ==
  IF Len(q) = 1 THEN GoString(q[1]) ELSE GoStrings(SortDesc(q))

\* JSON texts of an Action / Resource field: a string or an array of strings
FieldTexts ==
  {JStr(s) : s \in Idents} \cup
  {JArr(q) : q \in SeqsUpTo({JStr(s) : s \in Idents}, MaxStrings)}

\* an Action / Resource value about to be built from a config list, or the
\* JSON text of one about to be decoded
InitField ==
  /\ mode = "field"
  /\ DeDupIdle
  /\ ps = <<>> /\ cs = <<>> /\ ret = Nil
  /\ status = "ok" /\ in0 = Nil /\ prev = NoBytes
  /\ \/ /\ lI \in SeqsUpTo(Idents, MaxStrings)
        /\ b = NoBytes
        /\ phase = "config"
        /\ src = "constructed"
     \/ /\ lI = <<>>
        /\ b \in FieldTexts
        /\ phase = "bytes"
        /\ src = "none"

\* the caller stores the converted config list in the statement's field
DecodeConfigStringList ==
  /\ mode = "field" /\ phase = "config"
  /\ ret' = iamPolicyDecodeConfigStringList(lI)
  /\ phase' = "built"
  /\ UNCHANGED <<mode, dedupVars, ps, cs, lI, b, status, src, in0, prev>>

\* json.Unmarshal of the Action / Resource field, an interface{}
UnmarshalField ==
  /\ mode = "field" /\ phase \in {"bytes", "encoded"}
  /\ ret' = FromJSON(b)
  /\ phase' = "built"
  /\ src' = "decoded"
  /\ prev' = IF phase = "encoded" THEN b ELSE NoBytes
  /\ UNCHANGED <<mode, dedupVars, ps, cs, lI, b, status, in0>>

\* json.Marshal of the Action / Resource field, an interface{}
MarshalField ==
  /\ mode = "field" /\ phase = "built"
  /\ b' = ToJSON(ret)
  /\ in0' = ret
  /\ phase' = "encoded"
  /\ UNCHANGED <<mode, dedupVars, ps, cs, lI, ret, status, src, prev>>

\* ------------------------------------------------------------ DeDupSids
\* []*IAMPolicyStatement: a statement is its Sid plus the identity of the
\* pointer (its position in the sequence the caller built)
StatementSeqs ==
  UNION {{[k \in 1..len |-> [Sid |-> f[k], ptr |-> k]] : f \in [1..len -> Sids]}
          : len \in 0..MaxStatements}

\* the index expression forward, keeping the first occurrence
ScanIndexForward(l_, i_) == i_

\* l-i, the index read at each iteration (0-based)
ScanIndex(l_, i_) == l_ - i_

\* the removal one element too far
RemoveAfter(s, k) == SubSeq(s, 1, k + 1) \o SubSeq(s, k + 3, Len(s))

\* append(s[:k], s[k+1:]...) with 0-based k
RemoveAt(s, k) == SubSeq(s, 1, k) \o SubSeq(s, k + 2, Len(s))

InitDeDup ==
  /\ mode = "dedup"
  /\ Statements \in StatementSeqs
  /\ orig = Statements
  /\ sidsSeen = {}
  /\ l = 0
  /\ i = 0
  /\ n = 0
  /\ pc = "start"
  /\ CodecIdle

\* sidsSeen := {}; l := len-1; range expression evaluated once
DeDupBegin ==
  /\ mode = "dedup" /\ pc = "start"
  /\ sidsSeen' = {}
  /\ l' = Len(Statements) - 1
  /\ n' = Len(Statements)
  /\ i' = 0
  /\ pc' = "loop"
  /\ UNCHANGED <<mode, Statements, orig, codecVars>>

\* one iteration of the range loop
DeDupIter ==
  /\ mode = "dedup" /\ pc = "loop" /\ i < n
  /\ LET idx == ScanIndex(l, i) IN
       IF idx < 0 \/ idx >= Len(Statements)
       THEN /\ pc' = "panic"
            /\ UNCHANGED <<Statements, sidsSeen, i>>
       ELSE LET sid == Statements[idx + 1].Sid IN
            /\ IF sid # ""
               THEN /\ Statements' = IF sid \in sidsSeen
                                     THEN RemoveAt(Statements, idx)
                                     ELSE Statements
                    /\ sidsSeen' = sidsSeen \cup {sid}
               ELSE UNCHANGED <<Statements, sidsSeen>>
            /\ i' = i + 1
            /\ pc' = "loop"
  /\ UNCHANGED <<mode, orig, l, n, codecVars>>

\* the loop is exhausted and DeDupSids returns
DeDupReturn ==
  /\ mode = "dedup" /\ pc = "loop" /\ i = n
  /\ pc' = "done"
  /\ UNCHANGED <<mode, Statements, orig, sidsSeen, l, i, n, codecVars>>


Init == InitDeDup \/ InitPrincipal \/ InitCondition \/ InitField

Next ==
  \/ DeDupBegin
  \/ DeDupIter
  \/ DeDupReturn
  \/ PMarshal
  \/ PUnmarshal
  \/ CMarshal
  \/ CUnmarshal
  \/ DecodeConfigStringList
  \/ UnmarshalField
  \/ MarshalField

Spec == Init /\ [][Next]_vars

\* ------------------------------------------------------------- claims
SidsOf(s) == [k \in 1..Len(s) |-> s[k].Sid]

IsLastOccurrence(s, k) == \A j \in (k + 1)..Len(s) : s[j].Sid # s[k].Sid

KeepLast(s) == SelectSeq(s, LAMBDA x : x.Sid = "" \/ IsLastOccurrence(s, x.ptr))

\* C1: when DeDupSids returns, the statements left are exactly those with an
\* empty Sid or that are the last occurrence of their Sid, in their original
\* order; no empty-Sid statement is removed and no non-empty Sid is left twice.
C1_DeDupKeepsLast ==
  pc = "done" =>
    /\ Statements = KeepLast(orig)
    /\ \A k \in 1..Len(orig) :
         orig[k].Sid = "" => \E j \in 1..Len(Statements) : Statements[j] = orig[k]
    /\ \A j, k \in 1..Len(Statements) :
         (j # k /\ Statements[j].Sid # "") => Statements[j].Sid # Statements[k].Sid

C1_Witness ==
  /\ pc = "done"
  /\ SidsOf(orig) = <<"A", "B", "A", "C", "B">>
  /\ SidsOf(Statements) = <<"A", "C", "B">>

\* C10: the backward scan never reads outside the current sequence, and the
\* statement it reads is the one that originally sat at the index read.
C10_ScanInBounds ==
  /\ pc # "panic"
  /\ (pc = "loop" /\ i < n) =>
       /\ l - i >= 0
       /\ l - i < Len(Statements)
       /\ Statements[l - i + 1] = orig[l - i + 1]

C10_Witness ==
  /\ pc = "loop"
  /\ i < n
  /\ Len(Statements) < Len(orig)
  /\ Len(Statements) < n - 1
  /\ Statements[l - i + 1].Sid \in sidsSeen
\* the strings of an identifier / value, string or []string
StringsOf(x) == IF Kind(x) = "string" THEN {Val(x)} ELSE {Val(x)[k] : k \in 1..Len(Val(x))}

\* the strings of an emitted JSON value, string or array of strings
EmittedStrings(j) ==
  IF Kind(j) = "jstr" THEN {Val(j)} ELSE {Val(Val(j)[k]) : k \in 1..Len(Val(j))}

Descending(q) == \A k \in 1..(Len(q) - 1) : ~StrLess(q[k], q[k + 1])

SupportedShape(x) == Kind(x) \in {"string", "[]string"}

WildcardEntry(e) ==
  /\ e.Type \in {"AWS", "*"}
  /\ e.Identifiers \in {GoString("*"), GoStrings(<<"*">>)}

Reorderings(q) == {[k \in 1..Len(q) |-> q[pi[k]]] : pi \in Permutations(1..Len(q))}

ReorderedValue(x) ==
  IF Kind(x) \in {"[]string", "[]interface{}"}
  THEN {<<Kind(x), q>> : q \in Reorderings(Val(x))}
  ELSE {x}

\* the principal sets that differ from set only in the order inside lists
RECURSIVE PrincipalReorderings(_)
PrincipalReorderings(set) ==
  IF set = <<>> THEN {<<>>}
  ELSE {<<[Type |-> Head(set).Type, Identifiers |-> x]>> \o rest :
          x \in ReorderedValue(Head(set).Identifiers),
          rest \in PrincipalReorderings(Tail(set))}

RECURSIVE ConditionReorderings(_)
ConditionReorderings(set) ==
  IF set = <<>> THEN {<<>>}
  ELSE {<<[Test |-> Head(set).Test, Variable |-> Head(set).Variable, Values |-> x]>> \o rest :
          x \in ReorderedValue(Head(set).Values),
          rest \in ConditionReorderings(Tail(set))}

\* C2: a value produced by decoding encodes without aborting, the bytes of
\* an encoding decode without error, and re-encoding what was decoded from an
\* encoding gives the same bytes.
C2_RoundTripStable ==
  mode \in {"principal", "condition"} =>
    /\ (phase = "encoded" /\ src = "decoded") => status = "ok"
    /\ (phase = "decoded" /\ prev # NoBytes) => status = "ok"
    /\ (phase = "encoded" /\ prev # NoBytes) => b = prev

C4_MergedListDescending ==
  (/\ mode = "principal" /\ phase = "encoded" /\ src = "constructed" /\ status = "ok"
   /\ Len(in0) > 1
   /\ \A k \in 1..Len(in0) : Kind(in0[k].Identifiers) = "[]string") =>
    /\ Kind(b) = "jobj"
    /\ DOMAIN Val(b) = {in0[k].Type : k \in 1..Len(in0)}
    /\ \A k \in 1..Len(in0) :
         LET j == Val(b)[in0[k].Type] IN
           /\ Kind(j) = "jarr"
           /\ StringsOf(in0[k].Identifiers) \subseteq EmittedStrings(j)
           /\ Descending([m \in 1..Len(Val(j)) |-> Val(Val(j)[m])])

\* C5: outside the wildcard shorthand, every identifier / value of every
\* entry is in the value emitted for the entry's key.
C5_MergeLosesNothing ==
  /\ (/\ mode = "principal" /\ phase = "encoded" /\ src = "constructed" /\ status = "ok"
      /\ ~(Len(in0) = 1 /\ WildcardEntry(in0[1]))) =>
       \A k \in 1..Len(in0) :
         StringsOf(in0[k].Identifiers) \subseteq EmittedStrings(Val(b)[in0[k].Type])
  /\ (mode = "condition" /\ phase = "encoded" /\ src = "constructed" /\ status = "ok") =>
       \A k \in 1..Len(in0) :
         StringsOf(in0[k].Values) \subseteq
           EmittedStrings(Val(Val(b)[in0[k].Test])[in0[k].Variable])

\* C6: after encoding, the entries of the set hold the same lists, in the
\* same order, as before the call.
C6_EncodeLeavesInput ==
  /\ (mode = "principal" /\ phase = "encoded") => ps = in0
  /\ (mode = "condition" /\ phase = "encoded") => cs = in0

\* C7: decoding a condition set with a non-string array element ends with an
\* error returned, not an abort, and the target is left unpopulated.
C7_NonStringElementIsError ==
  (/\ mode = "condition" /\ phase = "decoded" /\ prev = NoBytes
   /\ TwoLevelObject(b)
   /\ \E t \in DOMAIN Val(b) : \E v \in DOMAIN Val(Val(b)[t]) :
        LET leaf == Val(Val(b)[t])[v] IN
          /\ Kind(leaf) = "jarr"
          /\ \E k \in 1..Len(Val(leaf)) : Kind(Val(leaf)[k]) # "jstr") =>
    /\ status = "error"
    /\ cs = <<>>

\* C8: a set of one entry of type "AWS" or "*" whose identifier is "*" or
\* ["*"] encodes to the bare string "*", not to an object.
C8_WildcardShorthand ==
  (/\ mode = "principal" /\ phase = "encoded"
   /\ Len(in0) = 1 /\ WildcardEntry(in0[1])) =>
    /\ status = "ok"
    /\ b = JStr("*")

C8_Witness ==
  /\ mode = "principal" /\ phase = "encoded" /\ src = "decoded"
  /\ in0 = <<[Type |-> "*", Identifiers |-> GoStrings(<<"*">>)]>>
  /\ prev = JStr("*")
  /\ b = JStr("*")

\* C9: encoding a set whose identifiers / values are all strings or lists of
\* strings does not abort.
C9_SupportedShapesEncode ==
  /\ (/\ mode = "principal" /\ phase = "encoded"
      /\ \A k \in 1..Len(in0) : SupportedShape(in0[k].Identifiers)) => status # "panic"
  /\ (/\ mode = "condition" /\ phase = "encoded"
      /\ \A k \in 1..Len(in0) : SupportedShape(in0[k].Values)) => status # "panic"
====
